---- MODULE Spec2Model ----
(***************************************************************************)
(* A state-machine model of one realisation of the stoat / pheromone       *)
(* simulation in src/pheromone/calculation.py: the seeding of the stoat    *)
(* array (createInitialStoats), the day / hour / stoat loops of            *)
(* runRealisation, and the helpers they call (doMaleMating, doBirth,       *)
(* doPheromoneInteraction, checkWithinDistanceOfTraps,                     *)
(* checkLocationIsOnIsland, createRandomLocationOnIsland).                  *)
(*                                                                         *)
(* Abstractions.  Coordinates are integers, the pixel size is 2, so that   *)
(* np.round's round-half-to-even is exercised.  A probability is a whole   *)
(* number of percent; a Bernoulli draw with p = 0 is always 0, with        *)
(* p = 100 always 1, and either otherwise.  Step length and bearing are    *)
(* continuous random variables with full support, so a movement candidate  *)
(* is any sample point; bearingT_1 and homerange only shape the            *)
(* distribution of the draw and are not part of the state.  The code runs  *)
(* under numba's njit, which does no bounds checking: an index past the    *)
(* end of an array reads or writes whatever memory is there.               *)
(***************************************************************************)
EXTENDS Integers, FiniteSets, Sequences, TLC

VARIABLES
    cfg,                        \* the arguments of runRealisation / createInitialStoats
    pc,                         \* position in the program
    stoatArray,                 \* slot -> stoat record (STOAT_DTYPE)
    nStoats,                    \* number of slots in use
    Current_Id,                 \* next id to hand out
    matingArray,                \* slot -> [maleid, femaleid, ndays]
    pheromoneInteractionArray,  \* slot -> [pheromoneid, stoatid, ndays]
    day, hour, stoat,           \* the three loop variables of runRealisation
    rangeStoats,                \* range(nStoats) of the stoat loop, fixed when the hour starts
    i,                          \* loop variable of the dispersal loop
    daysSincePheromoneRelease,
    inEstrous,
    eradication,
    mated,                      \* local of the stoat loop body
    result,                     \* what runRealisation returned, or the error raised
    exit,                       \* how the realisation ended
    oobWrite,                   \* history: a stoat record was written past the array
    matMade,                    \* history: the day each mating entry was written
    habMade                     \* history: the day and the stoat each interaction entry
                                \* was written on and for

vars == <<cfg, pc, stoatArray, nStoats, Current_Id, matingArray,
          pheromoneInteractionArray, day, hour, stoat, rangeStoats, i,
          daysSincePheromoneRelease, inEstrous, eradication, mated, result,
          exit, oobWrite, matMade, habMade>>

-----------------------------------------------------------------------------
(* Bounds of the model *)

\* capacity of the stoat array (1000 in the source, scaled down)
INITIAL_STOAT_ARRAY_SIZE == 4

\* the slot count above which runRealisation gives up (175 in the source, scaled down)
MaxStoatsBeforeAbort == 3

\* largest litter drawn from the Poisson distribution
MaxKits == 2

\* longest calendar horizon
MaxDays == 3

StoatSlots == 0 .. (INITIAL_STOAT_ARRAY_SIZE - 1)

Min(S) == CHOOSE m \in S : \A n \in S : m <= n

-----------------------------------------------------------------------------
(* The land mask and its geometry *)

MaskHeight(mask) == Cardinality(DOMAIN mask)

MaskWidth(mask) == Cardinality(DOMAIN mask[0])

\* brx, bry as runModel derives them from the geotransform of a north-up raster
Brx(c) == c.tlx + MaskWidth(c.mask) * c.pixSize

Bry(c) == c.tly - MaskHeight(c.mask) * c.pixSize

\* np.round(n / d) for n >= 0, d > 0: to the nearest integer, halves to the even one
RoundHalfEven(n, d) ==
    LET q == n \div d
        r == n % d
    IN  IF 2 * r < d THEN q
        ELSE IF 2 * r > d THEN q + 1
        ELSE IF q % 2 = 0 THEN q ELSE q + 1

XPix(c, x) == RoundHalfEven(x - c.tlx, c.pixSize)

YPix(c, y) == RoundHalfEven(c.tly - y, c.pixSize)

\* mask[yPix, xPix] without bounds checking on a C-contiguous buffer: the
\* element at offset yPix * width + xPix, and junk beyond the buffer
MaskRead(mask, yPix, xPix, junk) ==
    LET w == MaskWidth(mask)
        off == yPix * w + xPix
    IN  IF off < w * MaskHeight(mask) THEN mask[off \div w][off % w] ELSE junk

InBox(c, x, y) == x >= c.tlx /\ x <= Brx(c) /\ y <= c.tly /\ y >= Bry(c)

checkLocationIsOnIsland(c, x, y, junk) ==
    IF InBox(c, x, y)
    THEN MaskRead(c.mask, YPix(c, y), XPix(c, x), junk) > 0
    ELSE FALSE

\* what an unchecked read past the mask can find
Junk == {0, 1}

\* x = tlx + random() * xsize, y = bry + random() * ysize with random() in [0, 1),
\* over the sample of points c.samplePoints
UniformDraws(c) ==
    {p \in c.samplePoints :
        p[1] >= c.tlx /\ p[1] < Brx(c) /\ p[2] >= Bry(c) /\ p[2] < c.tly}

\* the points createRandomLocationOnIsland can return: the draws its loop accepts
createRandomLocationOnIsland(c) ==
    {p \in UniformDraws(c) : \E junk \in Junk : checkLocationIsOnIsland(c, p[1], p[2], junk)}

\* sqrt(xdist * xdist + ydist * ydist) < d
DistLess(x1, y1, x2, y2, d) ==
    (x1 - x2) * (x1 - x2) + (y1 - y2) * (y1 - y2) < d * d

\* np.random.binomial(1, p) == 1, p in percent
Binomial(p) == {b \in BOOLEAN : (b => p > 0) /\ (~b => p < 100)}

\* inArray(value, array); None is the empty set
inArray(value, array) == value \in array

-----------------------------------------------------------------------------
(* The arguments of a realisation *)

\* a Python array as a function on 0 .. n - 1
Arr(seq) == [k \in 0 .. (Len(seq) - 1) |-> seq[k + 1]]

\* a 1 x 2 raster, both cells land
MaskLandLand == Arr(<<Arr(<<1, 1>>)>>)

\* a 1 x 2 raster, land only in the first cell
MaskLandSea == Arr(<<Arr(<<1, 0>>)>>)

\* a 1 x 2 raster, land only in the second cell
MaskSeaLand == Arr(<<Arr(<<0, 1>>)>>)

\* Samples of the points the random draws produce.  InlandPoints: a point in
\* each cell of the raster and a point outside the bounding box.  EdgePoints
\* adds a point that rounds to the column past the last and one that rounds to
\* the row past the last.
InlandPoints == {<<0, 1>>, <<2, 1>>, <<5, 1>>}

EdgePoints == InlandPoints \cup {<<3, 1>>, <<2, 0>>}

\* The arguments every scenario starts from: three days of one hour, a female
\* and a male seeded, no lure stations, no traps, no calendar events.
BaseCfg ==
    [nDays |-> MaxDays, hoursPerDay |-> 1, nAdd |-> 2,
     mask |-> MaskLandLand, tlx |-> 0, tly |-> 2, pixSize |-> 2,
     samplePoints |-> InlandPoints,
     pheromoneReleaseDays |-> {}, estrousStartDays |-> {}, estrousEndDays |-> {},
     birthDays |-> {}, trappingDays |-> {}, dispersalDays |-> {},
     pheromoneArray |-> Arr(<<>>), trapsArray |-> Arr(<<>>),
     habituationDays |-> 1, encounterDistance |-> 2, COA_radius |-> 3,
     trapEncDist |-> 2, trapProbRemoval |-> 50, pDaySurv |-> 50,
     probPregnacy |-> 50, nDaysPregnantBeforeBirth |-> 0, meanRecruits |-> 1]

\* breeding: estrus from day 0, births on day 1, dispersal on day 2
LifeCycleCfgs ==
    {[BaseCfg EXCEPT !.estrousStartDays = {0}, !.estrousEndDays = {2},
                     !.birthDays = {1}, !.dispersalDays = {2},
                     !.habituationDays = t] : t \in {1, 2}}

\* lures: a station at (0, 1) released on day 0, births on day 1
LureCfgs ==
    {[BaseCfg EXCEPT !.pheromoneArray = Arr(<<<<0, 1>>>>),
                     !.pheromoneReleaseDays = {0}, !.birthDays = {1},
                     !.habituationDays = t] : t \in {1, 2}}

\* a litter in the nest beside a lure station: births on day 1, three hours a day
LureNestCfgs ==
    {[BaseCfg EXCEPT !.nDays = 2, !.hoursPerDay = 3,
                     !.pheromoneArray = Arr(<<<<0, 1>>>>),
                     !.pheromoneReleaseDays = {0}, !.birthDays = {1}]}

\* trapping on every day, two hours a day
TrapCfgs ==
    {[BaseCfg EXCEPT !.nDays = 2, !.hoursPerDay = 2, !.trapsArray = Arr(<<<<0, 1>>>>),
                     !.trappingDays = {0, 1}, !.estrousStartDays = {0},
                     !.pDaySurv = 100]}

\* no survival from one day to the next
NoSurvivalCfgs ==
    {[BaseCfg EXCEPT !.nDays = n, !.hoursPerDay = h, !.pDaySurv = 0,
                     !.estrousStartDays = {0}, !.birthDays = {0, 1}]
        : n \in {1, 2}, h \in {1, 2}}

\* rasters with water, and draws at the edges of the bounding box
EdgeCfgs ==
    {[BaseCfg EXCEPT !.nDays = 1, !.mask = m, !.samplePoints = EdgePoints,
                     !.dispersalDays = {0}]
        : m \in {MaskLandLand, MaskLandSea, MaskSeaLand}}

\* a full array: three stoats seeded, litters on day 1 and day 2
CrowdedCfgs ==
    {[BaseCfg EXCEPT !.nAdd = 3, !.birthDays = {1, 2}, !.estrousStartDays = {0},
                     !.probPregnacy = 100, !.pDaySurv = 100]}

\* a trap that reaches every point and removes every stoat it meets, set on
\* every day; births on every day
SureTrapCfgs ==
    {[BaseCfg EXCEPT !.nDays = n, !.hoursPerDay = h, !.trapsArray = Arr(<<<<0, 1>>>>),
                     !.trapEncDist = 3, !.trapProbRemoval = 100,
                     !.trappingDays = {0, 1}, !.birthDays = {0, 1}, !.pDaySurv = 100]
        : n \in {1, 2}, h \in {1, 2}}

\* lures in the breeding season: the station of LureCfgs, estrus from day 0,
\* the release on day 1
LureEstrusCfgs ==
    {[c EXCEPT !.estrousStartDays = {0}, !.pheromoneReleaseDays = {1}] : c \in LureCfgs}

\* two birth days in one season of two hours a day: a daughter still in the
\* nest can conceive on day 1 and give birth on day 2
DaughterCfgs ==
    {[BaseCfg EXCEPT !.hoursPerDay = 2, !.estrousStartDays = {0}, !.birthDays = {1, 2},
                     !.probPregnacy = 100]}

\* the days of the longest calendar
CalendarDays == 0 .. (MaxDays - 1)

\* every set of release days, and every pair of sets of estrus-start and
\* estrus-end days
CalendarCfgs ==
    {[BaseCfg EXCEPT !.pheromoneReleaseDays = r] : r \in SUBSET CalendarDays}
        \cup {[BaseCfg EXCEPT !.estrousStartDays = a, !.estrousEndDays = b]
                 : a \in SUBSET CalendarDays, b \in SUBSET CalendarDays}

\* a gestation of more than a day: estrus from day 0, every day a birth day
GestationCfgs ==
    {[BaseCfg EXCEPT !.nDaysPregnantBeforeBirth = 1, !.estrousStartDays = {0},
                     !.birthDays = CalendarDays, !.probPregnacy = 100]}

\* a trap beside a nest: births and trapping on day 1, two hours a day
TrapNestCfgs ==
    {[BaseCfg EXCEPT !.nDays = 2, !.hoursPerDay = 2, !.trapsArray = Arr(<<<<0, 1>>>>),
                     !.trappingDays = {1}, !.birthDays = {1}, !.pDaySurv = 100]}

\* two litters in one hour: three stoats seeded, births on day 1
TwoLitterCfgs ==
    {[BaseCfg EXCEPT !.nAdd = 3, !.birthDays = {1}]}

\* entries that are made with a count of 0: estrus and a release on day 0, a
\* station at (0, 1)
ZeroDaysCfgs ==
    {[BaseCfg EXCEPT !.habituationDays = 0, !.estrousStartDays = {0},
                     !.pheromoneArray = Arr(<<<<0, 1>>>>), !.pheromoneReleaseDays = {0}]}

Configs ==
    LifeCycleCfgs \cup LureCfgs \cup LureNestCfgs \cup TrapCfgs \cup NoSurvivalCfgs \cup EdgeCfgs
        \cup CrowdedCfgs \cup SureTrapCfgs \cup LureEstrusCfgs \cup DaughterCfgs
        \cup CalendarCfgs \cup GestationCfgs \cup TrapNestCfgs
        \cup TwoLitterCfgs \cup ZeroDaysCfgs

-----------------------------------------------------------------------------
(* Construction: runModel, lines 766-772 and 809-811 *)

\* np.zeros(..., dtype=STOAT_DTYPE) with deleted = True
ZeroStoat ==
    [deleted |-> TRUE, male |-> FALSE, pregnant |-> FALSE, x |-> 0, y |-> 0,
     home_x |-> 0, home_y |-> 0, id |-> 0, pregnant_day |-> 0, parentid |-> 0]

MatingSlots == 0 .. (INITIAL_STOAT_ARRAY_SIZE * 2 - 1)

InteractionSlots(c) == 0 .. (INITIAL_STOAT_ARRAY_SIZE * Cardinality(DOMAIN c.pheromoneArray) - 1)

\* what np.empty leaves in the fields that are not set
Uninitialised == {-1, 0}

Init ==
    /\ cfg \in Configs
    /\ pc = "seed"
    /\ stoatArray = [k \in StoatSlots |-> ZeroStoat]
    /\ nStoats = 0
    /\ Current_Id = 0
    /\ \E u \in Uninitialised :
          /\ matingArray = [m \in MatingSlots |-> [maleid |-> -1, femaleid |-> u, ndays |-> u]]
          /\ pheromoneInteractionArray =
                [m \in InteractionSlots(cfg) |-> [pheromoneid |-> u, stoatid |-> -1, ndays |-> u]]
    /\ day = 0
    /\ hour = 0
    /\ stoat = 0
    /\ rangeStoats = 0
    /\ i = 0
    /\ daysSincePheromoneRelease = -1
    /\ inEstrous = FALSE
    /\ eradication = FALSE
    /\ mated = FALSE
    /\ result = "none"
    /\ exit = "running"
    /\ oobWrite = FALSE
    /\ matMade = [m \in MatingSlots |-> -1]
    /\ habMade = [m \in InteractionSlots(cfg) |-> [day |-> -1, stoatid |-> -1]]

-----------------------------------------------------------------------------
(* createInitialStoats: one iteration of its loop *)

SeededStoat(p, male, id, c) ==
    [deleted |-> FALSE, male |-> male, pregnant |-> ~male,
     pregnant_day |-> IF male THEN -1 ELSE -c.nDaysPregnantBeforeBirth,
     x |-> p[1], y |-> p[2], home_x |-> p[1], home_y |-> p[2],
     id |-> id, parentid |-> -1]

CreateInitialStoat ==
    /\ pc = "seed"
    /\ \E p \in createRandomLocationOnIsland(cfg), drawn \in BOOLEAN :
          LET male == IF nStoats = 0 THEN FALSE ELSE IF nStoats = 1 THEN TRUE ELSE drawn
          IN  stoatArray' = [stoatArray EXCEPT ![nStoats] = SeededStoat(p, male, Current_Id, cfg)]
    /\ Current_Id' = Current_Id + 1
    /\ nStoats' = Current_Id + 1
    /\ pc' = IF nStoats + 1 < cfg.nAdd THEN "seed" ELSE "day"
    /\ UNCHANGED <<cfg, matingArray, pheromoneInteractionArray, day, hour, stoat,
                   rangeStoats, i, daysSincePheromoneRelease, inEstrous, eradication,
                   mated, result, exit, oobWrite, matMade, habMade>>

-----------------------------------------------------------------------------
(* runRealisation: the start of a day, lines 430-464 *)

\* a start of day that looks at the estrus-end days first
DayBeginEndFirst ==
    /\ pc = "day"
    /\ IF nStoats > MaxStoatsBeforeAbort
       THEN \* break, then return eradication
            /\ eradication' = FALSE
            /\ result' = FALSE
            /\ exit' = "abort"
            /\ pc' = "done"
            /\ UNCHANGED <<daysSincePheromoneRelease, inEstrous, i, hour>>
       ELSE /\ daysSincePheromoneRelease' =
                  IF inArray(day, cfg.pheromoneReleaseDays) THEN 0
                  ELSE daysSincePheromoneRelease
            /\ inEstrous' =
                  IF inArray(day, cfg.estrousEndDays) THEN FALSE
                  ELSE IF inArray(day, cfg.estrousStartDays) THEN TRUE
                  ELSE inEstrous
            /\ pc' = IF inArray(day, cfg.dispersalDays) THEN "disperse" ELSE "hour"
            /\ i' = 0
            /\ hour' = IF inArray(day, cfg.dispersalDays) THEN hour ELSE 0
            /\ UNCHANGED <<eradication, result, exit>>
    /\ UNCHANGED <<cfg, stoatArray, nStoats, Current_Id, matingArray,
                   pheromoneInteractionArray, day, stoat, rangeStoats, mated,
                   oobWrite, matMade, habMade>>

DayBegin ==
    /\ pc = "day"
    /\ IF nStoats > MaxStoatsBeforeAbort
       THEN \* break, then return eradication
            /\ eradication' = FALSE
            /\ result' = FALSE
            /\ exit' = "abort"
            /\ pc' = "done"
            /\ UNCHANGED <<daysSincePheromoneRelease, inEstrous, i, hour>>
       ELSE /\ daysSincePheromoneRelease' =
                  IF inArray(day, cfg.pheromoneReleaseDays) THEN 0
                  ELSE daysSincePheromoneRelease
            /\ inEstrous' =
                  IF inArray(day, cfg.estrousStartDays) THEN TRUE
                  ELSE IF inArray(day, cfg.estrousEndDays) THEN FALSE
                  ELSE inEstrous
            /\ pc' = IF inArray(day, cfg.dispersalDays) THEN "disperse" ELSE "hour"
            /\ i' = 0
            /\ hour' = IF inArray(day, cfg.dispersalDays) THEN hour ELSE 0
            /\ UNCHANGED <<eradication, result, exit>>
    /\ UNCHANGED <<cfg, stoatArray, nStoats, Current_Id, matingArray,
                   pheromoneInteractionArray, day, stoat, rangeStoats, mated,
                   oobWrite, matMade, habMade>>

\* a dispersal loop that relocates the mature and the male stoats
DisperseStoatMatureOrMale ==
    /\ pc = "disperse"
    /\ LET s == stoatArray[i]
       IN  IF ~s.deleted /\ (s.parentid = -1 \/ s.male)
           THEN \E p \in createRandomLocationOnIsland(cfg) :
                   stoatArray' = [stoatArray EXCEPT ![i] =
                       [s EXCEPT !.x = p[1], !.y = p[2], !.home_x = p[1],
                                 !.home_y = p[2], !.parentid = -1]]
           ELSE stoatArray' = [stoatArray EXCEPT ![i].parentid = -1]
    /\ i' = i + 1
    /\ pc' = IF i + 1 < nStoats THEN "disperse" ELSE "hour"
    /\ hour' = IF i + 1 < nStoats THEN hour ELSE 0
    /\ UNCHANGED <<cfg, nStoats, Current_Id, matingArray, pheromoneInteractionArray,
                   day, stoat, rangeStoats, daysSincePheromoneRelease, inEstrous,
                   eradication, mated, result, exit, oobWrite, matMade, habMade>>

\* one iteration of the dispersal loop, lines 454-464
DisperseStoat ==
    /\ pc = "disperse"
    /\ LET s == stoatArray[i]
       IN  IF ~s.deleted /\ (s.parentid # -1 \/ s.male)
           THEN \E p \in createRandomLocationOnIsland(cfg) :
                   stoatArray' = [stoatArray EXCEPT ![i] =
                       [s EXCEPT !.x = p[1], !.y = p[2], !.home_x = p[1],
                                 !.home_y = p[2], !.parentid = -1]]
           ELSE stoatArray' = [stoatArray EXCEPT ![i].parentid = -1]
    /\ i' = i + 1
    /\ pc' = IF i + 1 < nStoats THEN "disperse" ELSE "hour"
    /\ hour' = IF i + 1 < nStoats THEN hour ELSE 0
    /\ UNCHANGED <<cfg, nStoats, Current_Id, matingArray, pheromoneInteractionArray,
                   day, stoat, rangeStoats, daysSincePheromoneRelease, inEstrous,
                   eradication, mated, result, exit, oobWrite, matMade, habMade>>

\* a start of hour whose loop runs over the whole array
HourBeginWholeArray ==
    /\ pc = "hour"
    /\ eradication' = TRUE
    /\ stoat' = 0
    /\ rangeStoats' = INITIAL_STOAT_ARRAY_SIZE
    /\ pc' = "stoat"
    /\ UNCHANGED <<cfg, stoatArray, nStoats, Current_Id, matingArray,
                   pheromoneInteractionArray, day, hour, i, daysSincePheromoneRelease,
                   inEstrous, mated, result, exit, oobWrite, matMade, habMade>>

\* the start of an hour, lines 466-470
HourBegin ==
    /\ pc = "hour"
    /\ eradication' = TRUE
    /\ stoat' = 0
    /\ rangeStoats' = nStoats
    /\ pc' = "stoat"
    /\ UNCHANGED <<cfg, stoatArray, nStoats, Current_Id, matingArray,
                   pheromoneInteractionArray, day, hour, i, daysSincePheromoneRelease,
                   inEstrous, mated, result, exit, oobWrite, matMade, habMade>>

\* a deleted slot: the loop body is skipped, line 475
SkipDeletedStoat ==
    /\ pc = "stoat"
    /\ stoat < rangeStoats
    /\ stoatArray[stoat].deleted
    /\ stoat' = stoat + 1
    /\ UNCHANGED <<cfg, pc, stoatArray, nStoats, Current_Id, matingArray,
                   pheromoneInteractionArray, day, hour, rangeStoats, i,
                   daysSincePheromoneRelease, inEstrous, eradication, mated, result,
                   exit, oobWrite, matMade, habMade>>

\* an end of hour that does not step the hour loop
HourEndRepeatingHour ==
    /\ pc = "stoat"
    /\ stoat >= rangeStoats
    /\ IF eradication
       THEN \* return True
            /\ result' = TRUE
            /\ exit' = "eradicated"
            /\ pc' = "done"
       ELSE /\ UNCHANGED <<result, exit>>
            /\ pc' = "hour"
    /\ UNCHANGED <<cfg, stoatArray, nStoats, Current_Id, matingArray,
                   pheromoneInteractionArray, day, hour, stoat, rangeStoats, i,
                   daysSincePheromoneRelease, inEstrous, eradication, mated, oobWrite,
                   matMade, habMade>>

\* the end of an hour, lines 652-662, and the step of the hour loop
HourEnd ==
    /\ pc = "stoat"
    /\ stoat >= rangeStoats
    /\ IF eradication
       THEN \* return True
            /\ result' = TRUE
            /\ exit' = "eradicated"
            /\ pc' = "done"
            /\ hour' = hour
       ELSE /\ UNCHANGED <<result, exit>>
            /\ hour' = IF hour + 1 < cfg.hoursPerDay THEN hour + 1 ELSE hour
            /\ pc' = IF hour + 1 < cfg.hoursPerDay THEN "hour" ELSE "dayEnd"
    /\ UNCHANGED <<cfg, stoatArray, nStoats, Current_Id, matingArray,
                   pheromoneInteractionArray, day, stoat, rangeStoats, i,
                   daysSincePheromoneRelease, inEstrous, eradication, mated, oobWrite,
                   matMade, habMade>>

-----------------------------------------------------------------------------
(* doMaleMating, lines 222-274 *)

\* a search of the mating array that finds nothing: doMaleMating without the
\* test of lines 230-238
alreadyMatedNeverFound(M, maleid, femaleid) == FALSE

alreadyMated(M, maleid, femaleid) ==
    \E m \in DOMAIN M : M[m].maleid = maleid /\ M[m].femaleid = femaleid

\* a loop that does not ask whether the female is mature
MatingTargetsOfAnyAge(A, n, M, x, y, stoatid, encounterDistance) ==
    {k \in 0 .. (n - 1) :
        /\ ~A[k].deleted
        /\ ~A[k].male
        /\ ~alreadyMated(M, stoatid, A[k].id)
        /\ DistLess(x, y, A[k].x, A[k].y, encounterDistance)}

\* the slots the loop of doMaleMating would stop at: a live, mature female the
\* male has no entry with, within encounterDistance
MatingTargets(A, n, M, x, y, stoatid, encounterDistance) ==
    {k \in 0 .. (n - 1) :
        /\ ~A[k].deleted
        /\ ~A[k].male
        /\ A[k].parentid = -1
        /\ ~alreadyMated(M, stoatid, A[k].id)
        /\ DistLess(x, y, A[k].x, A[k].y, encounterDistance)}

\* the slots the inner loop of lines 252-257 offers a pregnancy to
OffspringOffered(A, n, motherid) ==
    {k \in 0 .. (n - 1) : A[k].parentid = motherid /\ ~A[k].male}

FreeMatingSlots(M) == {m \in DOMAIN M : M[m].maleid = -1}

\* the array after the female in slot t, and the offspring in D, conceive on day d
Impregnate(A, t, conceived, D, d) ==
    [k \in DOMAIN A |->
        IF (k = t /\ conceived) \/ k \in D
        THEN [A[k] EXCEPT !.pregnant = TRUE, !.pregnant_day = d]
        ELSE A[k]]

doMaleMating ==
    LET s == stoatArray[stoat]
        targets == MatingTargets(stoatArray, nStoats, matingArray, s.x, s.y, s.id,
                                 cfg.encounterDistance)
    IN  IF targets = {}
        THEN /\ mated' = FALSE
             /\ pc' = "pheromone"
             /\ UNCHANGED <<stoatArray, matingArray, matMade, result, exit>>
        ELSE LET t == Min(targets)
                 offered == OffspringOffered(stoatArray, nStoats, stoatArray[t].id)
                 free == FreeMatingSlots(matingArray)
             IN  \E conceived \in BOOLEAN, D \in SUBSET offered :
                    /\ IF stoatArray[t].pregnant
                       THEN ~conceived
                       ELSE conceived \in Binomial(cfg.probPregnacy)
                    /\ IF conceived
                       THEN \A k \in offered : (k \in D) \in Binomial(cfg.probPregnacy)
                       ELSE D = {}
                    /\ stoatArray' = Impregnate(stoatArray, t, conceived, D, day)
                    /\ IF free = {}
                       THEN /\ result' = "Unable to add mating"
                            /\ exit' = "error"
                            /\ pc' = "error"
                            /\ UNCHANGED <<matingArray, matMade, mated>>
                       ELSE /\ matingArray' = [matingArray EXCEPT ![Min(free)] =
                                  [maleid |-> s.id, femaleid |-> stoatArray[t].id,
                                   ndays |-> cfg.habituationDays]]
                            /\ matMade' = [matMade EXCEPT ![Min(free)] = day]
                            /\ mated' = TRUE
                            /\ pc' = "pheromone"
                            /\ UNCHANGED <<result, exit>>

-----------------------------------------------------------------------------
(* doBirth, lines 312-367 *)

\* np.random.poisson(meanRecruits), cut at MaxKits
Poisson(meanRecruits) == IF meanRecruits = 0 THEN {0} ELSE 0 .. MaxKits

DeletedSlots(A, n) == {k \in 0 .. (n - 1) : A[k].deleted}

\* how many kits are added onto the end
Appended(A, n, nKits) ==
    IF nKits > Cardinality(DeletedSlots(A, n))
    THEN nKits - Cardinality(DeletedSlots(A, n))
    ELSE 0

\* a first loop that looks for deleted slots from the last slot in use down
KitAtFromTheTop(A, n, nKits, k) ==
    LET del == DeletedSlots(A, n)
        j == IF k \in del THEN Cardinality({d \in del : d > k}) + 1
             ELSE IF k >= n THEN Cardinality(del) + (k - n) + 1
             ELSE 0
    IN  IF j <= nKits THEN j ELSE 0

\* which kit (1, 2, ...) the loops write at slot k, 0 for none: the deleted
\* slots below n in ascending order first, then the slots from n on
KitAt(A, n, nKits, k) ==
    LET del == DeletedSlots(A, n)
        j == IF k \in del THEN Cardinality({d \in del : d < k}) + 1
             ELSE IF k >= n THEN Cardinality(del) + (k - n) + 1
             ELSE 0
    IN  IF j <= nKits THEN j ELSE 0

\* a kit that is independent from birth
NewbornIndependent(mother, male, id) ==
    [deleted |-> FALSE, x |-> mother.x, y |-> mother.y, home_x |-> mother.x,
     home_y |-> mother.y, male |-> male, pregnant |-> FALSE, pregnant_day |-> -1,
     id |-> id, parentid |-> -1]

\* a kit whose home anchor is its mother's home anchor
NewbornAtMothersHome(mother, male, id) ==
    [deleted |-> FALSE, x |-> mother.x, y |-> mother.y, home_x |-> mother.home_x,
     home_y |-> mother.home_y, male |-> male, pregnant |-> FALSE, pregnant_day |-> -1,
     id |-> id, parentid |-> mother.id]

Newborn(mother, male, id) ==
    [deleted |-> FALSE, x |-> mother.x, y |-> mother.y, home_x |-> mother.x,
     home_y |-> mother.y, male |-> male, pregnant |-> FALSE, pregnant_day |-> -1,
     id |-> id, parentid |-> mother.id]

\* 'Too many stoats' is raised after the record at index nStoats is written and
\* nStoats is incremented: the test is nStoats > INITIAL_STOAT_ARRAY_SIZE
BirthOverflows(A, n, nKits) == n + Appended(A, n, nKits) > INITIAL_STOAT_ARRAY_SIZE

\* a birth that does not advance Current_Id between the kits of a litter
BirthWritesOneId(A, n, mother, nKits, sexes, firstId) ==
    [k \in DOMAIN A |->
        IF KitAt(A, n, nKits, k) > 0
        THEN Newborn(A[mother], sexes[KitAt(A, n, nKits, k)], firstId)
        ELSE A[k]]

\* the slots of the array after the writes of the two loops
BirthWrites(A, n, mother, nKits, sexes, firstId) ==
    [k \in DOMAIN A |->
        IF KitAt(A, n, nKits, k) > 0
        THEN Newborn(A[mother], sexes[KitAt(A, n, nKits, k)],
                     firstId + KitAt(A, n, nKits, k) - 1)
        ELSE A[k]]

doBirth ==
    \E nKits \in Poisson(cfg.meanRecruits) :
      \E sexes \in [1 .. nKits -> BOOLEAN] :
        LET B == BirthWrites(stoatArray, nStoats, stoat, nKits, sexes, Current_Id)
        IN  IF BirthOverflows(stoatArray, nStoats, nKits)
            THEN \* the record at index INITIAL_STOAT_ARRAY_SIZE is written, then the raise
                 /\ stoatArray' = B
                 /\ oobWrite' = TRUE
                 /\ result' = "Too many stoats"
                 /\ exit' = "error"
                 /\ pc' = "error"
                 /\ UNCHANGED <<nStoats, Current_Id>>
            ELSE /\ stoatArray' = [B EXCEPT ![stoat].pregnant = FALSE,
                                            ![stoat].pregnant_day = -1]
                 /\ nStoats' = nStoats + Appended(stoatArray, nStoats, nKits)
                 /\ Current_Id' = Current_Id + nKits
                 /\ pc' = "pheromone"
                 /\ UNCHANGED <<oobWrite, result, exit>>

-----------------------------------------------------------------------------
(* The body of the stoat loop, lines 475-519: mating or birth *)

\* a loop body in which a pregnant female gives birth whatever the length of
\* her pregnancy
StoatMateOrBirthAtAnyGestation ==
    /\ pc = "stoat"
    /\ stoat < rangeStoats
    /\ ~stoatArray[stoat].deleted
    /\ eradication' = FALSE
    /\ LET s == stoatArray[stoat]
       IN  CASE s.male /\ inEstrous /\ s.parentid = -1 ->
                  /\ doMaleMating
                  /\ UNCHANGED <<nStoats, Current_Id, oobWrite>>
             [] /\ ~s.male
                /\ inArray(day, cfg.birthDays)
                /\ hour = 0
                /\ s.pregnant ->
                  /\ doBirth
                  /\ UNCHANGED <<matingArray, matMade, mated>>
             [] OTHER ->
                  /\ pc' = "pheromone"
                  /\ UNCHANGED <<stoatArray, nStoats, Current_Id, matingArray, matMade,
                                 mated, oobWrite, result, exit>>
    /\ UNCHANGED <<cfg, pheromoneInteractionArray, day, hour, stoat, rangeStoats, i,
                   daysSincePheromoneRelease, inEstrous, habMade>>

StoatMateOrBirth ==
    /\ pc = "stoat"
    /\ stoat < rangeStoats
    /\ ~stoatArray[stoat].deleted
    /\ eradication' = FALSE
    /\ LET s == stoatArray[stoat]
       IN  CASE s.male /\ inEstrous /\ s.parentid = -1 ->
                  /\ doMaleMating
                  /\ UNCHANGED <<nStoats, Current_Id, oobWrite>>
             [] /\ ~s.male
                /\ inArray(day, cfg.birthDays)
                /\ hour = 0
                /\ s.pregnant
                /\ (day - s.pregnant_day) > cfg.nDaysPregnantBeforeBirth ->
                  /\ doBirth
                  /\ UNCHANGED <<matingArray, matMade, mated>>
             [] OTHER ->
                  /\ pc' = "pheromone"
                  /\ UNCHANGED <<stoatArray, nStoats, Current_Id, matingArray, matMade,
                                 mated, oobWrite, result, exit>>
    /\ UNCHANGED <<cfg, pheromoneInteractionArray, day, hour, stoat, rangeStoats, i,
                   daysSincePheromoneRelease, inEstrous, habMade>>

-----------------------------------------------------------------------------
(* doPheromoneInteraction, lines 277-309, called at lines 516-519 *)

\* the stations within encounterDistance of (x, y)
StationsInReach(P, x, y, encounterDistance) ==
    {p \in DOMAIN P : DistLess(P[p][1], P[p][2], x, y, encounterDistance)}

FreeInteractionSlots(H) == {h \in DOMAIN H : H[h].stoatid = -1}

\* an interaction that is dropped when the array has no free slot
doPheromoneInteractionDropping ==
    LET s == stoatArray[stoat]
        reach == StationsInReach(cfg.pheromoneArray, s.x, s.y, cfg.encounterDistance)
        free == FreeInteractionSlots(pheromoneInteractionArray)
    IN  IF reach = {} \/ free = {}
        THEN /\ pc' = "mortality"
             /\ UNCHANGED <<pheromoneInteractionArray, habMade, result, exit>>
        ELSE /\ pheromoneInteractionArray' =
                   [pheromoneInteractionArray EXCEPT ![Min(free)] =
                       [pheromoneid |-> Min(reach), stoatid |-> s.id,
                        ndays |-> cfg.habituationDays]]
             /\ habMade' = [habMade EXCEPT ![Min(free)] = [day |-> day, stoatid |-> s.id]]
             /\ pc' = "mortality"
             /\ UNCHANGED <<result, exit>>

\* The loop over the stations stops at the first one in reach.  The "continue"
\* of line 294 continues the inner loop over the entries, so an entry the stoat
\* already has for the station does not stop a new one from being added.
doPheromoneInteraction ==
    LET s == stoatArray[stoat]
        reach == StationsInReach(cfg.pheromoneArray, s.x, s.y, cfg.encounterDistance)
        free == FreeInteractionSlots(pheromoneInteractionArray)
    IN  IF reach = {}
        THEN /\ pc' = "mortality"
             /\ UNCHANGED <<pheromoneInteractionArray, habMade, result, exit>>
        ELSE IF free = {}
        THEN /\ result' = "Unable to add to pheromoneInteractionArray"
             /\ exit' = "error"
             /\ pc' = "error"
             /\ UNCHANGED <<pheromoneInteractionArray, habMade>>
        ELSE /\ pheromoneInteractionArray' =
                   [pheromoneInteractionArray EXCEPT ![Min(free)] =
                       [pheromoneid |-> Min(reach), stoatid |-> s.id,
                        ndays |-> cfg.habituationDays]]
             /\ habMade' = [habMade EXCEPT ![Min(free)] = [day |-> day, stoatid |-> s.id]]
             /\ pc' = "mortality"
             /\ UNCHANGED <<result, exit>>

StoatPheromone ==
    /\ pc = "pheromone"
    /\ IF mated
       THEN /\ pc' = "mortality"
            /\ UNCHANGED <<pheromoneInteractionArray, habMade, result, exit>>
       ELSE doPheromoneInteraction
    /\ mated' = FALSE
    /\ UNCHANGED <<cfg, stoatArray, nStoats, Current_Id, matingArray, day, hour, stoat,
                   rangeStoats, i, daysSincePheromoneRelease, inEstrous, eradication,
                   oobWrite, matMade>>

-----------------------------------------------------------------------------
(* Trapping and mortality, lines 521-559 *)

checkWithinDistanceOfTraps(x, y, trapsArray, trapEncDist) ==
    \E t \in DOMAIN trapsArray :
        DistLess(trapsArray[t][1], trapsArray[t][2], x, y, trapEncDist)

\* lines 541-545: the stoat and every slot whose parentid is its id
KillAndCascade(A, n, dead) ==
    [k \in DOMAIN A |->
        IF k = dead \/ (k < n /\ A[k].parentid = A[dead].id)
        THEN [A[k] EXCEPT !.deleted = TRUE]
        ELSE A[k]]

\* a purge that looks at the male of an entry only
PurgeMatingOfMale(M, id) ==
    [m \in DOMAIN M |->
        IF M[m].maleid = id THEN [M[m] EXCEPT !.maleid = -1] ELSE M[m]]

\* lines 548-551
PurgeMating(M, id) ==
    [m \in DOMAIN M |->
        IF M[m].maleid = id \/ M[m].femaleid = id
        THEN [M[m] EXCEPT !.maleid = -1]
        ELSE M[m]]

\* lines 554-556
PurgeInteraction(H, id) ==
    [h \in DOMAIN H |->
        IF H[h].stoatid = id THEN [H[h] EXCEPT !.stoatid = -1] ELSE H[h]]

\* whether a trapping trial is made for the stoat this hour, lines 524-525
TrapTrial(s) ==
    /\ inArray(day, cfg.trappingDays)
    /\ checkWithinDistanceOfTraps(s.x, s.y, cfg.trapsArray, cfg.trapEncDist)

\* a mortality step that draws natural mortality in every hour
StoatMortalityEveryHour ==
    /\ pc = "mortality"
    /\ LET s == stoatArray[stoat]
       IN  \E trapped \in BOOLEAN, died \in BOOLEAN :
              /\ IF TrapTrial(s)
                 THEN trapped \in Binomial(cfg.trapProbRemoval)
                 ELSE ~trapped
              /\ IF ~trapped
                 THEN died \in Binomial(100 - cfg.pDaySurv)
                 ELSE ~died
              /\ IF trapped \/ died
                 THEN /\ stoatArray' = KillAndCascade(stoatArray, nStoats, stoat)
                      /\ matingArray' = PurgeMating(matingArray, s.id)
                      /\ pheromoneInteractionArray' =
                            PurgeInteraction(pheromoneInteractionArray, s.id)
                      /\ stoat' = stoat + 1
                      /\ pc' = "stoat"
                 ELSE /\ pc' = "move"
                      /\ UNCHANGED <<stoatArray, matingArray, pheromoneInteractionArray,
                                     stoat>>
    /\ UNCHANGED <<cfg, nStoats, Current_Id, day, hour, rangeStoats, i,
                   daysSincePheromoneRelease, inEstrous, eradication, mated, result,
                   exit, oobWrite, matMade, habMade>>

StoatMortality ==
    /\ pc = "mortality"
    /\ LET s == stoatArray[stoat]
       IN  \E trapped \in BOOLEAN, died \in BOOLEAN :
              /\ IF TrapTrial(s)
                 THEN trapped \in Binomial(cfg.trapProbRemoval)
                 ELSE ~trapped
              /\ IF ~trapped /\ hour = cfg.hoursPerDay - 1
                 THEN died \in Binomial(100 - cfg.pDaySurv)
                 ELSE ~died
              /\ IF trapped \/ died
                 THEN /\ stoatArray' = KillAndCascade(stoatArray, nStoats, stoat)
                      /\ matingArray' = PurgeMating(matingArray, s.id)
                      /\ pheromoneInteractionArray' =
                            PurgeInteraction(pheromoneInteractionArray, s.id)
                      /\ stoat' = stoat + 1
                      /\ pc' = "stoat"
                 ELSE /\ pc' = "move"
                      /\ UNCHANGED <<stoatArray, matingArray, pheromoneInteractionArray,
                                     stoat>>
    /\ UNCHANGED <<cfg, nStoats, Current_Id, day, hour, rangeStoats, i,
                   daysSincePheromoneRelease, inEstrous, eradication, mated, result,
                   exit, oobWrite, matMade, habMade>>

-----------------------------------------------------------------------------
(* Movement, lines 562-650 *)

\* a movement step that does not ask whether the stoat has dispersed
StoatMoveAtAnyAge ==
    /\ pc = "move"
    /\ \E new \in cfg.samplePoints, junk \in Junk :
          IF checkLocationIsOnIsland(cfg, new[1], new[2], junk)
          THEN /\ stoatArray' = [stoatArray EXCEPT ![stoat].x = new[1],
                                                   ![stoat].y = new[2]]
               /\ stoat' = stoat + 1
               /\ pc' = "stoat"
          ELSE UNCHANGED <<stoatArray, stoat, pc>>
    /\ UNCHANGED <<cfg, nStoats, Current_Id, matingArray, pheromoneInteractionArray,
                   day, hour, rangeStoats, i, daysSincePheromoneRelease, inEstrous,
                   eradication, mated, result, exit, oobWrite, matMade, habMade>>

\* One pass of the loop of lines 591-650 for a mature stoat: a candidate
\* position is drawn and taken if it is on the island, and the loop goes
\* round again if it is not.  A stoat that has not dispersed does not move.
StoatMove ==
    /\ pc = "move"
    /\ IF stoatArray[stoat].parentid # -1
       THEN /\ stoat' = stoat + 1
            /\ pc' = "stoat"
            /\ UNCHANGED stoatArray
       ELSE \E new \in cfg.samplePoints, junk \in Junk :
               IF checkLocationIsOnIsland(cfg, new[1], new[2], junk)
               THEN /\ stoatArray' = [stoatArray EXCEPT ![stoat].x = new[1],
                                                        ![stoat].y = new[2]]
                    /\ stoat' = stoat + 1
                    /\ pc' = "stoat"
               ELSE UNCHANGED <<stoatArray, stoat, pc>>
    /\ UNCHANGED <<cfg, nStoats, Current_Id, matingArray, pheromoneInteractionArray,
                   day, hour, rangeStoats, i, daysSincePheromoneRelease, inEstrous,
                   eradication, mated, result, exit, oobWrite, matMade, habMade>>

-----------------------------------------------------------------------------
(* checkForEstrousMatesAndDecoysInRadius: the search of the stations, lines 180-206 *)

\* a search of the stations that does not ask whether anything was released
PheromoneCandidatesAnyDay(x, y, stoatid, P, H, COA_radius, daysSince) ==
    {p \in DOMAIN P :
        /\ DistLess(x, y, P[p][1], P[p][2], COA_radius)
        /\ ~\E h \in DOMAIN H : H[h].stoatid = stoatid /\ H[h].pheromoneid = p}

\* the stations that enter the weighted draw for a stoat at (x, y): those within
\* COA_radius for which no entry names the stoat, once a release has occurred
PheromoneCandidates(x, y, stoatid, P, H, COA_radius, daysSince) ==
    IF daysSince # -1
    THEN {p \in DOMAIN P :
            /\ DistLess(x, y, P[p][1], P[p][2], COA_radius)
            /\ ~\E h \in DOMAIN H : H[h].stoatid = stoatid /\ H[h].pheromoneid = p}
    ELSE {}

\* the search of the stoats, lines 149-178: the slots that enter the draw
MateCandidates(lookingForMale, x, y, A, n, stoatid, COA_radius, M) ==
    {k \in 0 .. (n - 1) :
        /\ ~A[k].deleted
        /\ A[k].parentid = -1
        /\ A[k].male = lookingForMale
        /\ DistLess(x, y, A[k].x, A[k].y, COA_radius)
        /\ ~\E m \in DOMAIN M :
              \/ lookingForMale /\ M[m].femaleid = stoatid /\ M[m].maleid = A[k].id
              \/ ~lookingForMale /\ M[m].maleid = stoatid /\ M[m].femaleid = A[k].id}

\* result = None
None == <<>>

\* What checkForEstrousMatesAndDecoysInRadius can return, as the point
\* (xCoords[i], yCoords[i]): the weights Kappac are positive, so the multinomial
\* draw of lines 208-217 can pick any entry of the temporary arrays, and None
\* is returned when they are empty.
checkForEstrousMatesAndDecoysInRadius(lookingForMale, x, y, A, n, stoatid, COA_radius, daysSince, P, H, M) ==
    LET mates == MateCandidates(lookingForMale, x, y, A, n, stoatid, COA_radius, M)
        decoys == PheromoneCandidates(x, y, stoatid, P, H, COA_radius, daysSince)
    IN  IF mates = {} /\ decoys = {}
        THEN {None}
        ELSE {<<A[k].x, A[k].y>> : k \in mates} \cup {<<P[p][1], P[p][2]>> : p \in decoys}

checkStoatHasKitsInNest(A, n, stoatid) ==
    \E k \in 0 .. (n - 1) : ~A[k].deleted /\ A[k].parentid = stoatid

\* homerangeBehaviour of lines 483-492 is False: the stoat searches
Searching(s) ==
    /\ inEstrous
    /\ \/ s.male
       \/ ~s.pregnant /\ ~checkStoatHasKitsInNest(stoatArray, nStoats, s.id)

\* mateResult of lines 570-576 for the stoat of the loop
MateResults ==
    LET s == stoatArray[stoat]
    IN  checkForEstrousMatesAndDecoysInRadius(~s.male, s.x, s.y, stoatArray, nStoats, s.id,
            cfg.COA_radius, daysSincePheromoneRelease, cfg.pheromoneArray,
            pheromoneInteractionArray, matingArray)

-----------------------------------------------------------------------------
(* The end of a day, lines 665-683 *)

\* a decrement that frees an entry a day late, when its count has passed 0
DecrementInteractionsLate(H) ==
    [h \in DOMAIN H |->
        IF H[h].stoatid # -1
        THEN IF H[h].ndays - 1 < 0
             THEN [H[h] EXCEPT !.ndays = 0, !.stoatid = -1]
             ELSE [H[h] EXCEPT !.ndays = H[h].ndays - 1]
        ELSE H[h]]

\* lines 669-673
DecrementInteractions(H) ==
    [h \in DOMAIN H |->
        IF H[h].stoatid # -1
        THEN IF H[h].ndays - 1 = 0
             THEN [H[h] EXCEPT !.ndays = 0, !.stoatid = -1]
             ELSE [H[h] EXCEPT !.ndays = H[h].ndays - 1]
        ELSE H[h]]

\* lines 676-680
DecrementMatings(M) ==
    [m \in DOMAIN M |->
        IF M[m].maleid # -1
        THEN IF M[m].ndays - 1 = 0
             THEN [M[m] EXCEPT !.ndays = 0, !.maleid = -1]
             ELSE [M[m] EXCEPT !.ndays = M[m].ndays - 1]
        ELSE M[m]]

\* an end of day that counts the days whether or not anything was released
DayEndAlwaysCounting ==
    /\ pc = "dayEnd"
    /\ daysSincePheromoneRelease' =
          daysSincePheromoneRelease + 1
    /\ pheromoneInteractionArray' = DecrementInteractions(pheromoneInteractionArray)
    /\ matingArray' = DecrementMatings(matingArray)
    /\ IF day + 1 < cfg.nDays
       THEN /\ day' = day + 1
            /\ pc' = "day"
            /\ UNCHANGED <<result, exit>>
       ELSE \* the day loop is exhausted: return eradication
            /\ day' = day
            /\ result' = eradication
            /\ exit' = "horizon"
            /\ pc' = "done"
    /\ UNCHANGED <<cfg, stoatArray, nStoats, Current_Id, hour, stoat, rangeStoats, i,
                   inEstrous, eradication, mated, oobWrite, matMade, habMade>>

DayEnd ==
    /\ pc = "dayEnd"
    /\ daysSincePheromoneRelease' =
          IF daysSincePheromoneRelease # -1 THEN daysSincePheromoneRelease + 1
          ELSE daysSincePheromoneRelease
    /\ pheromoneInteractionArray' = DecrementInteractions(pheromoneInteractionArray)
    /\ matingArray' = DecrementMatings(matingArray)
    /\ IF day + 1 < cfg.nDays
       THEN /\ day' = day + 1
            /\ pc' = "day"
            /\ UNCHANGED <<result, exit>>
       ELSE \* the day loop is exhausted: return eradication
            /\ day' = day
            /\ result' = eradication
            /\ exit' = "horizon"
            /\ pc' = "done"
    /\ UNCHANGED <<cfg, stoatArray, nStoats, Current_Id, hour, stoat, rangeStoats, i,
                   inEstrous, eradication, mated, oobWrite, matMade, habMade>>

-----------------------------------------------------------------------------
Next ==
    \/ CreateInitialStoat
    \/ DayBegin
    \/ DisperseStoat
    \/ HourBegin
    \/ SkipDeletedStoat
    \/ StoatMateOrBirth
    \/ StoatPheromone
    \/ StoatMortality
    \/ StoatMove
    \/ HourEnd
    \/ DayEnd

Spec == Init /\ [][Next]_vars

-----------------------------------------------------------------------------
(* runRealisation entered with ledgers that are partly or wholly in use *)

\* estrus and a release on day 0, a station at (0, 1), dispersal on day 1
LedgerCfgs ==
    {[BaseCfg EXCEPT !.nDays = 2, !.pheromoneArray = Arr(<<<<0, 1>>>>),
                     !.pheromoneReleaseDays = {0}, !.estrousStartDays = {0},
                     !.dispersalDays = {1}, !.habituationDays = 2]}

\* ids of stoats of a population too large for the stoat array of this model:
\* the entries they hold fill the ledgers as four stoats cannot
ElsewhereId(m) == 2 * INITIAL_STOAT_ARRAY_SIZE + m

\* a mating array whose first k slots are in use
MatingArrayInUse(k, c, u) ==
    [m \in MatingSlots |->
        IF m < k
        THEN [maleid |-> ElsewhereId(2 * m), femaleid |-> ElsewhereId(2 * m + 1),
              ndays |-> c.habituationDays]
        ELSE [maleid |-> -1, femaleid |-> u, ndays |-> u]]

\* an interaction array whose first j slots are in use
InteractionArrayInUse(j, c, u) ==
    [h \in InteractionSlots(c) |->
        IF h < j
        THEN [pheromoneid |-> 0, stoatid |-> ElsewhereId(h), ndays |-> c.habituationDays]
        ELSE [pheromoneid |-> u, stoatid |-> -1, ndays |-> u]]

InitLedgers ==
    /\ cfg \in LedgerCfgs
    /\ pc = "seed"
    /\ stoatArray = [k \in StoatSlots |-> ZeroStoat]
    /\ nStoats = 0
    /\ Current_Id = 0
    /\ \E u \in Uninitialised, k \in 0 .. Cardinality(MatingSlots),
          j \in 0 .. Cardinality(InteractionSlots(cfg)) :
          /\ matingArray = MatingArrayInUse(k, cfg, u)
          /\ pheromoneInteractionArray = InteractionArrayInUse(j, cfg, u)
          /\ matMade = [m \in MatingSlots |-> IF m < k THEN 0 ELSE -1]
          /\ habMade = [h \in InteractionSlots(cfg) |->
                          IF h < j THEN [day |-> 0, stoatid |-> ElsewhereId(h)]
                          ELSE [day |-> -1, stoatid |-> -1]]
    /\ day = 0
    /\ hour = 0
    /\ stoat = 0
    /\ rangeStoats = 0
    /\ i = 0
    /\ daysSincePheromoneRelease = -1
    /\ inEstrous = FALSE
    /\ eradication = FALSE
    /\ mated = FALSE
    /\ result = "none"
    /\ exit = "running"
    /\ oobWrite = FALSE

LedgerSpec == InitLedgers /\ [][Next]_vars

-----------------------------------------------------------------------------
(* Vocabulary of the properties *)

\* the slots holding a live stoat
LiveSlots == {k \in 0 .. (nStoats - 1) : ~stoatArray[k].deleted}

LiveIds == {stoatArray[k].id : k \in LiveSlots}

\* every stoat of the hour has been processed: the hour is at its end
HourEnded == pc = "stoat" /\ stoat >= rangeStoats

ActiveMatings == {m \in DOMAIN matingArray : matingArray[m].maleid # -1}

ActiveInteractions ==
    {h \in DOMAIN pheromoneInteractionArray : pheromoneInteractionArray[h].stoatid # -1}

\* a slot that held no live stoat before the step and holds one after it
Created(k) == stoatArray[k].deleted /\ ~stoatArray'[k].deleted

-----------------------------------------------------------------------------
(* C1 *)

IdsUnique ==
    \A a, b \in StoatSlots :
        (a # b /\ ~stoatArray[a].deleted /\ ~stoatArray[b].deleted)
            => stoatArray[a].id # stoatArray[b].id

IdsBelowCounter == \A k \in 0 .. (nStoats - 1) : stoatArray[k].id < Current_Id

\* C1: live stoats have pairwise different ids; a created stoat gets an id at
\* or above the counter, the counter never decreases, and, but for the step that
\* raises 'Too many stoats' and returns no counter, every id in the array is
\* below the counter and the counter goes up by exactly one for each stoat
\* created.
C1_IdsUniqueAndNeverReused ==
    [][ /\ IdsUnique'
        /\ Current_Id' >= Current_Id
        /\ \A k \in StoatSlots : Created(k) => stoatArray'[k].id >= Current_Id
        /\ pc' # "error" =>
              /\ IdsBelowCounter'
              /\ Current_Id' = Current_Id + Cardinality({k \in StoatSlots : Created(k)})
      ]_vars

\* a litter of two, one kit in the slot of a dead stoat and one added at the end
C1_Witness ==
    \E a, b \in LiveSlots :
        /\ a < b
        /\ stoatArray[a].parentid # -1
        /\ stoatArray[a].parentid = stoatArray[b].parentid
        /\ stoatArray[a].id >= cfg.nAdd
        /\ a < cfg.nAdd
        /\ b >= cfg.nAdd

-----------------------------------------------------------------------------
(* C2 *)

\* C2: at the end of an hour every active mating entry names two live stoats.
C2_NoMatingWithTheDead ==
    HourEnded =>
        \A m \in ActiveMatings :
            matingArray[m].maleid \in LiveIds /\ matingArray[m].femaleid \in LiveIds

\* an entry that was purged, not expired (its count is not 0), at the end of an
\* hour in which a mother and her litter are dead
C2_Witness ==
    /\ HourEnded
    /\ \E m \in DOMAIN matingArray :
          /\ matMade[m] >= 0
          /\ matingArray[m].maleid = -1
          /\ matingArray[m].ndays > 0
          /\ \E k, j \in 0 .. (nStoats - 1) :
                /\ stoatArray[k].deleted
                /\ stoatArray[k].id = matingArray[m].femaleid
                /\ stoatArray[j].deleted
                /\ stoatArray[j].parentid = stoatArray[k].id

-----------------------------------------------------------------------------
(* C3 *)

\* C3: at the end of an hour every active interaction entry names a live stoat.
C3_NoInteractionWithTheDead ==
    HourEnded =>
        \A h \in ActiveInteractions : pheromoneInteractionArray[h].stoatid \in LiveIds

-----------------------------------------------------------------------------
(* C4 *)

PairsUnique ==
    /\ \A m \in ActiveMatings : matingArray[m].maleid # matingArray[m].femaleid
    /\ \A m, n \in ActiveMatings :
          m # n =>
            /\ ~(/\ matingArray[m].maleid = matingArray[n].maleid
                 /\ matingArray[m].femaleid = matingArray[n].femaleid)
            /\ ~(/\ matingArray[m].maleid = matingArray[n].femaleid
                 /\ matingArray[m].femaleid = matingArray[n].maleid)

\* the mating slot is active after the step and was written by it
Recorded(m) ==
    /\ matingArray'[m].maleid # -1
    /\ matingArray'[m] # matingArray[m]
    /\ pc = "stoat"

\* C4: no two active mating entries name the same pair, none names one stoat
\* twice, and a pair is recorded only when no active entry named it before.
C4_MatingPairsUnique ==
    [][ /\ PairsUnique'
        /\ \A m \in DOMAIN matingArray :
              Recorded(m) =>
                ~\E n \in ActiveMatings :
                    /\ matingArray[n].maleid = matingArray'[m].maleid
                    /\ matingArray[n].femaleid = matingArray'[m].femaleid
      ]_vars

\* a male in estrus passes over the female beside him, whom he has an entry with
C4_Witness ==
    /\ pc = "pheromone"
    /\ ~mated
    /\ inEstrous
    /\ stoatArray[stoat].male
    /\ stoatArray[stoat].parentid = -1
    /\ \E k \in LiveSlots :
          /\ ~stoatArray[k].male
          /\ stoatArray[k].parentid = -1
          /\ DistLess(stoatArray[stoat].x, stoatArray[stoat].y, stoatArray[k].x,
                      stoatArray[k].y, cfg.encounterDistance)
          /\ \E m \in ActiveMatings :
                /\ matingArray[m].maleid = stoatArray[stoat].id
                /\ matingArray[m].femaleid = stoatArray[k].id

-----------------------------------------------------------------------------
(* C5 *)

\* C5: no stoat record is written at an index at or past the capacity, and
\* outside an error the slot count is at most the capacity.
C5_NoWritePastCapacity ==
    /\ ~oobWrite
    /\ pc # "error" => nStoats <= INITIAL_STOAT_ARRAY_SIZE

-----------------------------------------------------------------------------
(* C6 *)

\* checkLocationIsOnIsland holds of the point whatever lies past the mask
OnIsland(x, y) == \A junk \in Junk : checkLocationIsOnIsland(cfg, x, y, junk)

\* C6: the position and the home anchor of every live stoat are on the island.
C6_StoatsStayOnLand ==
    \A k \in LiveSlots :
        /\ OnIsland(stoatArray[k].x, stoatArray[k].y)
        /\ OnIsland(stoatArray[k].home_x, stoatArray[k].home_y)

-----------------------------------------------------------------------------
(* C7 *)

\* C7: when an hour ends with every slot deleted, runRealisation returns True
\* at the end of that hour.
C7_EradicationInTheHourOfTheLastDeath ==
    [][ (HourEnded /\ LiveSlots = {}) => (pc' = "done" /\ result' = TRUE) ]_vars

-----------------------------------------------------------------------------
(* C8 *)

\* C8: a return of False at the end of the calendar leaves a live stoat.
C8_FalseAtHorizonOnlyIfAlive ==
    (exit = "horizon" /\ result = FALSE) => LiveSlots # {}

-----------------------------------------------------------------------------
(* C9 *)

\* what is left of the count of an entry made on day made, during day d
Remaining(made, d) == cfg.habituationDays - (d - made)

\* an active entry is within its days, and a station is kept from a stoat only
\* by an entry that is
EntriesInTheirDays ==
    /\ \A h \in ActiveInteractions :
          /\ habMade[h].day <= day
          /\ day <= habMade[h].day + cfg.habituationDays - 1
          /\ pheromoneInteractionArray[h].ndays = Remaining(habMade[h].day, day)
    /\ \A m \in ActiveMatings :
          /\ matMade[m] <= day
          /\ day <= matMade[m] + cfg.habituationDays - 1
          /\ matingArray[m].ndays = Remaining(matMade[m], day)
    /\ \A k \in LiveSlots, p \in DOMAIN cfg.pheromoneArray :
          (/\ daysSincePheromoneRelease # -1
           /\ DistLess(stoatArray[k].x, stoatArray[k].y, cfg.pheromoneArray[p][1],
                       cfg.pheromoneArray[p][2], cfg.COA_radius)
           /\ p \notin PheromoneCandidates(stoatArray[k].x, stoatArray[k].y,
                          stoatArray[k].id, cfg.pheromoneArray,
                          pheromoneInteractionArray, cfg.COA_radius,
                          daysSincePheromoneRelease))
            => \E h \in ActiveInteractions :
                  /\ pheromoneInteractionArray[h].stoatid = stoatArray[k].id
                  /\ pheromoneInteractionArray[h].pheromoneid = p
                  /\ habMade[h].day > day - cfg.habituationDays

\* an entry is freed only at the end of its last day or by the death of a stoat
\* it names, and is not overwritten while it is active
EntriesKeptTheirDays ==
    /\ \A h \in ActiveInteractions :
          IF pheromoneInteractionArray'[h].stoatid = -1
          THEN \/ pc = "dayEnd" /\ day = habMade[h].day + cfg.habituationDays - 1
               \/ /\ pc = "mortality"
                  /\ stoatArray'[stoat].deleted
                  /\ pheromoneInteractionArray[h].stoatid = stoatArray[stoat].id
          ELSE /\ habMade'[h] = habMade[h]
               /\ pheromoneInteractionArray'[h].stoatid = pheromoneInteractionArray[h].stoatid
    /\ \A m \in ActiveMatings :
          IF matingArray'[m].maleid = -1
          THEN \/ pc = "dayEnd" /\ day = matMade[m] + cfg.habituationDays - 1
               \/ /\ pc = "mortality"
                  /\ stoatArray'[stoat].deleted
                  /\ \/ matingArray[m].maleid = stoatArray[stoat].id
                     \/ matingArray[m].femaleid = stoatArray[stoat].id
          ELSE /\ matMade'[m] = matMade[m]
               /\ matingArray'[m].maleid = matingArray[m].maleid

\* C9: with habituationDays = t >= 1, an entry made on day d is active on no day
\* after d + t - 1, its count on day e is t - (e - d), it is freed before then
\* only by the death of a stoat it names, and a station within COA_radius is
\* kept out of a stoat's attraction candidates only by an entry less than t
\* days old.
C9_EntriesLastTheirDays ==
    [][ cfg.habituationDays >= 1 =>
          /\ exit' # "horizon" => EntriesInTheirDays'
          /\ EntriesKeptTheirDays
      ]_vars

\* habituationDays = 1: on day 2 the entry a stoat made on day 0 is free with a
\* count of 0, and the station is a candidate for that stoat
C9_Witness ==
    /\ cfg.habituationDays = 1
    /\ day = 2
    /\ pc = "stoat"
    /\ \E k \in LiveSlots, h \in DOMAIN pheromoneInteractionArray :
          /\ habMade[h] = [day |-> 0, stoatid |-> stoatArray[k].id]
          /\ pheromoneInteractionArray[h].stoatid = -1
          /\ pheromoneInteractionArray[h].ndays = 0
          /\ pheromoneInteractionArray[h].pheromoneid \in
                PheromoneCandidates(stoatArray[k].x, stoatArray[k].y, stoatArray[k].id,
                                    cfg.pheromoneArray, pheromoneInteractionArray,
                                    cfg.COA_radius, daysSincePheromoneRelease)

-----------------------------------------------------------------------------
(* C10 *)

\* C10: with pDaySurv = 0 no stoat is alive once day 0 has ended, and
\* runRealisation returns True.
C10_NoSurvivalEradicatesInADay ==
    cfg.pDaySurv = 0 =>
        /\ (day >= 1 \/ pc \in {"dayEnd", "done"}) => LiveSlots = {}
        /\ pc = "done" => result = TRUE

-----------------------------------------------------------------------------
(* C11 *)

\* every day of the calendar is a trapping day, a trapping trial always removes,
\* and every point a stoat can be at is within trapEncDist of a trap
TrappingIsCertain ==
    /\ \A d \in 0 .. (cfg.nDays - 1) : inArray(d, cfg.trappingDays)
    /\ cfg.trapProbRemoval = 100
    /\ \A p \in cfg.samplePoints :
          (\E junk \in Junk : checkLocationIsOnIsland(cfg, p[1], p[2], junk))
              => checkWithinDistanceOfTraps(p[1], p[2], cfg.trapsArray, cfg.trapEncDist)

\* C11: with certain trapping runRealisation returns True before day 0 has ended.
C11_CertainTrappingEradicatesOnDayZero ==
    TrappingIsCertain =>
        /\ day = 0
        /\ pc # "dayEnd"
        /\ pc = "done" => result = TRUE

-----------------------------------------------------------------------------
(* C12 *)

\* C12: the guard at the start of a day aborts the realisation exactly when more
\* than the threshold of stoats are alive.
C12_GuardCountsLiveStoats ==
    [][ pc = "day" =>
          (exit' = "abort" <=> Cardinality(LiveSlots) > MaxStoatsBeforeAbort) ]_vars

-----------------------------------------------------------------------------
(* C13 *)

\* the step is the call of doMaleMating by the stoat of the loop, and the loop
\* of doMaleMating reaches a female to record
MatingToRecord ==
    /\ pc = "stoat"
    /\ stoat < rangeStoats
    /\ ~stoatArray[stoat].deleted
    /\ stoatArray[stoat].male /\ inEstrous /\ stoatArray[stoat].parentid = -1
    /\ MatingTargets(stoatArray, nStoats, matingArray, stoatArray[stoat].x,
                     stoatArray[stoat].y, stoatArray[stoat].id,
                     cfg.encounterDistance) # {}

\* the step is the call of doPheromoneInteraction, and a station is in reach
InteractionToRecord ==
    /\ pc = "pheromone"
    /\ ~mated
    /\ StationsInReach(cfg.pheromoneArray, stoatArray[stoat].x, stoatArray[stoat].y,
                       cfg.encounterDistance) # {}

\* C13: a mating or an interaction that has to be recorded is recorded in a free
\* slot, or, when there is none, the step ends in the error of its ledger; no
\* step follows an error.
C13_LedgerOverflowIsAnError ==
    [][ /\ MatingToRecord =>
              IF FreeMatingSlots(matingArray) = {}
              THEN pc' = "error" /\ result' = "Unable to add mating"
              ELSE /\ pc' = "pheromone"
                   /\ \E m \in FreeMatingSlots(matingArray) :
                         /\ matingArray'[m].maleid = stoatArray[stoat].id
                         /\ matingArray'[m].ndays = cfg.habituationDays
        /\ InteractionToRecord =>
              IF FreeInteractionSlots(pheromoneInteractionArray) = {}
              THEN pc' = "error" /\ result' = "Unable to add to pheromoneInteractionArray"
              ELSE /\ pc' = "mortality"
                   /\ \E h \in FreeInteractionSlots(pheromoneInteractionArray) :
                         /\ pheromoneInteractionArray'[h].stoatid = stoatArray[stoat].id
                         /\ pheromoneInteractionArray'[h].ndays = cfg.habituationDays
        /\ pc # "error"
      ]_vars

\* the male met a female with every slot of the mating array in use
C13_Witness ==
    /\ pc = "error"
    /\ result = "Unable to add mating"
    /\ FreeMatingSlots(matingArray) = {}
    /\ stoatArray[stoat].male

-----------------------------------------------------------------------------
(* C14 *)

\* the stoat of the loop is at its movement step and calls the search
SearchCalled ==
    /\ pc = "move"
    /\ stoatArray[stoat].parentid = -1
    /\ Searching(stoatArray[stoat])

\* the live, independent stoats of the other sex within COA_radius of the stoat
\* of the loop that no active mating entry pairs with it
MatesToFind ==
    LET s == stoatArray[stoat]
    IN  {k \in LiveSlots :
            /\ stoatArray[k].parentid = -1
            /\ stoatArray[k].male # s.male
            /\ DistLess(s.x, s.y, stoatArray[k].x, stoatArray[k].y, cfg.COA_radius)
            /\ ~\E m \in ActiveMatings :
                  {matingArray[m].maleid, matingArray[m].femaleid} = {s.id, stoatArray[k].id}}

\* after a release, the stations within COA_radius that no active interaction
\* entry of the stoat of the loop names
StationsToFind ==
    LET s == stoatArray[stoat]
    IN  {p \in DOMAIN cfg.pheromoneArray :
            /\ daysSincePheromoneRelease # -1
            /\ DistLess(s.x, s.y, cfg.pheromoneArray[p][1], cfg.pheromoneArray[p][2],
                        cfg.COA_radius)
            /\ ~\E h \in ActiveInteractions :
                  /\ pheromoneInteractionArray[h].stoatid = s.id
                  /\ pheromoneInteractionArray[h].pheromoneid = p}

PointsToFind ==
    {<<stoatArray[k].x, stoatArray[k].y>> : k \in MatesToFind}
        \cup {<<cfg.pheromoneArray[p][1], cfg.pheromoneArray[p][2]>> : p \in StationsToFind}

\* C14: the search returns None exactly when there is no mate and no station to
\* find, and otherwise the point of one of them, so the only one when there is
\* one.
C14_SearchReturnsACandidate ==
    SearchCalled =>
        /\ (None \in MateResults) <=> (MatesToFind = {} /\ StationsToFind = {})
        /\ (MatesToFind # {} \/ StationsToFind # {}) => MateResults = PointsToFind
        /\ Cardinality(MatesToFind) + Cardinality(StationsToFind) = 1 =>
              Cardinality(MateResults) = 1

\* a male that has an entry with the only female in range and none with the
\* station: the station is the one thing the search can return
C14_Witness ==
    /\ SearchCalled
    /\ stoatArray[stoat].male
    /\ MatesToFind = {}
    /\ \E k \in LiveSlots :
          /\ ~stoatArray[k].male
          /\ DistLess(stoatArray[stoat].x, stoatArray[stoat].y, stoatArray[k].x,
                      stoatArray[k].y, cfg.COA_radius)
    /\ StationsToFind = {0}
    /\ MateResults = {<<cfg.pheromoneArray[0][1], cfg.pheromoneArray[0][2]>>}

-----------------------------------------------------------------------------
(* C15 *)

\* C15: no two active interaction entries name the same stoat and station.
C15_OneEntryPerStoatAndStation ==
    \A g, h \in ActiveInteractions :
        (/\ pheromoneInteractionArray[g].stoatid = pheromoneInteractionArray[h].stoatid
         /\ pheromoneInteractionArray[g].pheromoneid = pheromoneInteractionArray[h].pheromoneid)
            => g = h

-----------------------------------------------------------------------------
(* C16 *)

\* C16: at the end of an hour the mother of every live dependent stoat is alive.
C16_NoLiveOrphan ==
    HourEnded =>
        \A k \in LiveSlots :
            stoatArray[k].parentid # -1 =>
                \E j \in LiveSlots : stoatArray[j].id = stoatArray[k].parentid

-----------------------------------------------------------------------------
(* C17 *)

\* the stoat in slot k has, after the step, a position createRandomLocationOnIsland
\* returns, and its home range anchored there
Relocated(k) ==
    /\ <<stoatArray'[k].x, stoatArray'[k].y>> \in createRandomLocationOnIsland(cfg)
    /\ stoatArray'[k].home_x = stoatArray'[k].x
    /\ stoatArray'[k].home_y = stoatArray'[k].y

\* the stoat in slot k is where it was, with the home range it had
LeftInPlace(k) ==
    /\ stoatArray'[k].x = stoatArray[k].x
    /\ stoatArray'[k].y = stoatArray[k].y
    /\ stoatArray'[k].home_x = stoatArray[k].home_x
    /\ stoatArray'[k].home_y = stoatArray[k].home_y

\* on a dispersal day the dispersal loop runs over every slot before hour 0
DispersalComesFirst ==
    /\ (pc = "day" /\ inArray(day, cfg.dispersalDays) /\ exit' # "abort") => pc' = "disperse"
    /\ (pc = "disperse" /\ pc' # "disperse") => (i' = nStoats /\ pc' = "hour" /\ hour' = 0)
    /\ pc' = "disperse" => (pc \in {"day", "disperse"} /\ inArray(day, cfg.dispersalDays))

\* C17 as stated: on a dispersal day every live stoat that is mature or male is
\* relocated with its home range, before hour 0.
C17_MatureOrMaleRelocated ==
    [][ /\ DispersalComesFirst
        /\ (/\ pc = "disperse"
            /\ ~stoatArray[i].deleted
            /\ (stoatArray[i].parentid = -1 \/ stoatArray[i].male)) => Relocated(i)
      ]_vars

\* C17, amended: on a dispersal day every live stoat that is dependent or male
\* is relocated with its home range, before hour 0; a live mature female is left
\* in place.
C17_DependentOrMaleRelocated ==
    [][ /\ DispersalComesFirst
        /\ pc = "disperse" =>
              /\ \A k \in StoatSlots \ {i} : stoatArray'[k] = stoatArray[k]
              /\ IF ~stoatArray[i].deleted
                        /\ (stoatArray[i].parentid # -1 \/ stoatArray[i].male)
                 THEN Relocated(i)
                 ELSE LeftInPlace(i)
      ]_vars

\* hour 0 of a dispersal day is about to start: a mature female is away from
\* her home range, where the loop left her, and a stoat born in the run that
\* was dependent is now anchored where it stands
C17_Witness ==
    /\ pc = "hour"
    /\ hour = 0
    /\ inArray(day, cfg.dispersalDays)
    /\ i = nStoats
    /\ \E k \in LiveSlots :
          /\ ~stoatArray[k].male
          /\ stoatArray[k].id < cfg.nAdd
          /\ stoatArray[k].x # stoatArray[k].home_x
    /\ \E k \in LiveSlots :
          /\ ~stoatArray[k].male
          /\ stoatArray[k].id >= cfg.nAdd
          /\ stoatArray[k].x = stoatArray[k].home_x

-----------------------------------------------------------------------------
(* C18 *)

\* slot k holds the same stoat before and after the step
SameStoat(k) ==
    /\ k < nStoats
    /\ stoatArray'[k].id = stoatArray[k].id
    /\ ~Created(k)

\* C18: a stoat is born with its mother's id as parentid; the parentid of a
\* stoat changes only in the dispersal loop at the start of a dispersal day, and
\* only to -1; when the loop has ended every slot in use has parentid -1.
C18_IndependentOnlyByDispersal ==
    [][ /\ \A k \in StoatSlots :
              /\ (Created(k) /\ pc = "stoat") =>
                    stoatArray'[k].parentid = stoatArray[stoat].id
              /\ (SameStoat(k) /\ stoatArray'[k].parentid # stoatArray[k].parentid) =>
                    /\ pc = "disperse"
                    /\ inArray(day, cfg.dispersalDays)
                    /\ k = i
                    /\ stoatArray'[k].parentid = -1
        /\ (pc = "disperse" /\ pc' = "hour") =>
              \A k \in 0 .. (nStoats - 1) : stoatArray'[k].parentid = -1
      ]_vars

\* the dispersal loop has ended and a stoat born in the run is independent
C18_Witness ==
    /\ pc = "hour"
    /\ inArray(day, cfg.dispersalDays)
    /\ \E k \in LiveSlots : stoatArray[k].id >= cfg.nAdd /\ stoatArray[k].parentid = -1
    /\ \E k \in 0 .. (nStoats - 1) : stoatArray[k].deleted /\ stoatArray[k].id >= cfg.nAdd

-----------------------------------------------------------------------------
(* C19 and C20: the calendar *)

Max(S) == CHOOSE m \in S : \A n \in S : m >= n

\* the hours of a day are being processed
InHours == pc \in {"hour", "stoat", "pheromone", "mortality", "move"}

\* the days up to d that are in D
UpTo(D, d) == {e \in D : e >= 0 /\ e <= d}

\* the days since the latest release day up to day d, -1 if there is none
SinceRelease(d, counted) ==
    IF UpTo(cfg.pheromoneReleaseDays, d) = {} THEN -1
    ELSE counted - Max(UpTo(cfg.pheromoneReleaseDays, d))

\* C19: in the hours of day d daysSincePheromoneRelease is d less the latest
\* release day up to d, and -1 if there is none; between the days it is the
\* count of the day that ended, one more once that day is counted, so it is
\* never -1 after a release.
C19_DaysSinceLatestRelease ==
    /\ (InHours \/ pc \in {"dayEnd", "disperse", "error"} \/ exit = "eradicated") =>
          daysSincePheromoneRelease = SinceRelease(day, day)
    /\ (pc = "day" \/ exit = "abort") =>
          daysSincePheromoneRelease = SinceRelease(day - 1, day)
    /\ exit = "horizon" =>
          daysSincePheromoneRelease = SinceRelease(day, day + 1)

\* the third day, with releases on the first and the third: the count is 0 again
C19_Witness ==
    /\ InHours
    /\ day = 2
    /\ cfg.pheromoneReleaseDays = {0, 2}
    /\ daysSincePheromoneRelease = 0

\* the estrus-start and estrus-end days
EstrusEvents == cfg.estrousStartDays \cup cfg.estrousEndDays

\* C20: in the hours of day d estrus is open exactly when there is an estrus
\* event up to d and the latest one is a start day, also when it is an end day
\* as well.
C20_EstrusFollowsLatestEvent ==
    InHours =>
        (inEstrous <=>
            /\ UpTo(EstrusEvents, day) # {}
            /\ Max(UpTo(EstrusEvents, day)) \in cfg.estrousStartDays)

\* day 1 is a start day and an end day, after an end day: estrus is open
C20_Witness ==
    /\ InHours
    /\ day = 1
    /\ cfg.estrousStartDays = {1}
    /\ cfg.estrousEndDays = {0, 1}
    /\ inEstrous

-----------------------------------------------------------------------------
(* C21 and C22: doBirth *)

\* the test of lines 507-508 passes for the stoat of the loop: the step from
\* here is a call of doBirth
BirthDue ==
    /\ pc = "stoat"
    /\ stoat < rangeStoats
    /\ ~stoatArray[stoat].deleted
    /\ ~stoatArray[stoat].male
    /\ inArray(day, cfg.birthDays)
    /\ hour = 0
    /\ stoatArray[stoat].pregnant
    /\ (day - stoatArray[stoat].pregnant_day) > cfg.nDaysPregnantBeforeBirth

\* the deleted slots below nStoats that the step fills
Refilled == {k \in DeletedSlots(stoatArray, nStoats) : Created(k)}

\* the slots from nStoats on that the step fills
AddedOnTheEnd == {k \in StoatSlots : k >= nStoats /\ Created(k)}

\* C21: a birth fills the lowest deleted slots below nStoats, in ascending
\* order of slot and id; it adds onto the end only when no deleted slot is left,
\* in the slots that follow nStoats; and when it returns, nStoats has grown by
\* the size of the litter less the number of deleted slots, or not at all.
C21_BirthReusesLowestDeletedSlots ==
    [][ BirthDue =>
          LET del == DeletedSlots(stoatArray, nStoats)
              nKits == Current_Id' - Current_Id
          IN  /\ \A k \in Refilled : \A d \in del : d < k => d \in Refilled
              /\ \A k \in Refilled \cup AddedOnTheEnd :
                    \A d \in Refilled \cup AddedOnTheEnd :
                        d < k => stoatArray'[d].id < stoatArray'[k].id
              /\ AddedOnTheEnd # {} => Refilled = del
              /\ AddedOnTheEnd = {k \in StoatSlots :
                                     k >= nStoats /\ k < nStoats + Cardinality(AddedOnTheEnd)}
              /\ pc' # "error" =>
                    /\ Cardinality(Refilled) + Cardinality(AddedOnTheEnd) = nKits
                    /\ Cardinality(Refilled) =
                          IF nKits < Cardinality(del) THEN nKits ELSE Cardinality(del)
                    /\ nStoats' = nStoats + (IF nKits > Cardinality(del)
                                             THEN nKits - Cardinality(del) ELSE 0)
      ]_vars

\* a mother whose newest kit is in a slot below a slot that is still deleted
C21_Witness ==
    /\ pc = "pheromone"
    /\ inArray(day, cfg.birthDays)
    /\ hour = 0
    /\ ~stoatArray[stoat].male
    /\ \E k \in LiveSlots :
          /\ stoatArray[k].parentid = stoatArray[stoat].id
          /\ stoatArray[k].id = Current_Id - 1
          /\ \E d \in DeletedSlots(stoatArray, nStoats) : d > k

\* C22: when doBirth returns, every kit is alive and not pregnant, is at its
\* mother's position with that position as its home anchor, and has her id as
\* parentid; the mother is not pregnant and her pregnant_day is -1, whatever
\* the size of the litter, and nothing else of her record has changed; no
\* other live stoat's record has changed.
C22_BirthWritesKitsAndMotherOnly ==
    [][ (BirthDue /\ pc' # "error") =>
          LET mother == stoatArray[stoat]
          IN  /\ \A k \in StoatSlots :
                    Created(k) =>
                        /\ ~stoatArray'[k].pregnant
                        /\ stoatArray'[k].pregnant_day = -1
                        /\ stoatArray'[k].x = mother.x
                        /\ stoatArray'[k].y = mother.y
                        /\ stoatArray'[k].home_x = mother.x
                        /\ stoatArray'[k].home_y = mother.y
                        /\ stoatArray'[k].parentid = mother.id
              /\ stoatArray'[stoat] = [mother EXCEPT !.pregnant = FALSE, !.pregnant_day = -1]
              /\ \A k \in LiveSlots : k # stoat => stoatArray'[k] = stoatArray[k]
      ]_vars

\* a seeded female that has moved from her home anchor has just had her first
\* litter, beside another live stoat that is not her kit
C22_Witness ==
    /\ pc = "pheromone"
    /\ inArray(day, cfg.birthDays)
    /\ \A d \in cfg.birthDays : d >= day
    /\ hour = 0
    /\ ~stoatArray[stoat].male
    /\ stoatArray[stoat].id < cfg.nAdd
    /\ ~stoatArray[stoat].pregnant
    /\ stoatArray[stoat].x # stoatArray[stoat].home_x
    /\ \E k \in LiveSlots :
          stoatArray[k].parentid = stoatArray[stoat].id /\ stoatArray[k].id = Current_Id - 1
    /\ \E k \in LiveSlots : k # stoat /\ stoatArray[k].parentid = -1

\* a seeded female has just had a first litter of no kits
C22_WitnessEmptyLitter ==
    /\ pc = "pheromone"
    /\ inArray(day, cfg.birthDays)
    /\ \A d \in cfg.birthDays : d >= day
    /\ hour = 0
    /\ ~stoatArray[stoat].male
    /\ stoatArray[stoat].id < cfg.nAdd
    /\ ~stoatArray[stoat].pregnant
    /\ stoatArray[stoat].pregnant_day = -1
    /\ Current_Id = cfg.nAdd

-----------------------------------------------------------------------------
(* C23 and C24: when births happen *)

\* the stoat of the loop was seeded by createInitialStoats and is a female
SeededFemale ==
    /\ ~stoatArray[stoat].male
    /\ stoatArray[stoat].id < cfg.nAdd

\* the first of the birth days
FirstBirthDay == day \in cfg.birthDays /\ \A d \in cfg.birthDays : d >= day

\* C23: a seeded female that reaches hour 0 of the first birth day alive and
\* pregnant gives birth in that hour, so she is not pregnant when the birth
\* branch of her turn is over, also when the first birth day is day 0.
C23_SeededFemaleGivesBirthOnFirstBirthDay ==
    (pc = "pheromone" /\ hour = 0 /\ FirstBirthDay /\ SeededFemale)
        => ~stoatArray[stoat].pregnant

\* C24: once the stoats are seeded, a slot is filled, an id is handed out or
\* nStoats grows only in the turn of a live, pregnant female at hour 0 of a
\* birth day, when day - pregnant_day is more than nDaysPregnantBeforeBirth; no
\* other step adds to the ids of the live stoats.
C24_BirthsOnlyWhenDue ==
    [][ ( /\ pc # "seed"
          /\ \/ nStoats' > nStoats
             \/ Current_Id' > Current_Id
             \/ \E k \in StoatSlots : Created(k)
             \/ ~(LiveIds' \subseteq LiveIds) )
        => BirthDue
      ]_vars

\* at hour 0 of a birth day a litter has been born, and the birth branch has
\* passed over a pregnant female whose pregnancy is not long enough
C24_Witness ==
    /\ pc = "pheromone"
    /\ inArray(day, cfg.birthDays)
    /\ hour = 0
    /\ day > 0
    /\ ~stoatArray[stoat].male
    /\ stoatArray[stoat].pregnant
    /\ (day - stoatArray[stoat].pregnant_day) <= cfg.nDaysPregnantBeforeBirth
    /\ \E k \in LiveSlots : stoatArray[k].id >= cfg.nAdd

-----------------------------------------------------------------------------
(* C25 and C26: doMaleMating *)

\* the step writes an entry into slot m of the mating array
MatingCreated(m) == matingArray[m].maleid = -1 /\ matingArray'[m].maleid # -1

\* the stoats that are named by an entry in use of the mating array
InMatingEntry(id) ==
    \E m \in ActiveMatings : matingArray[m].maleid = id \/ matingArray[m].femaleid = id

\* C25: an entry is written into the mating array only in estrus, in the turn
\* of a live, independent male, and names him and a live, independent female
\* within encounterDistance of him with whom he has no entry; a turn writes
\* one entry at most, and a stoat has one turn in an hour; no dependent stoat
\* is named by an entry in use.
C25_MatingOnlyBetweenIndependentStoats ==
    /\ [][ /\ \A m \in MatingSlots :
                 MatingCreated(m) =>
                    LET s == stoatArray[stoat]
                    IN  /\ pc = "stoat" /\ stoat < rangeStoats /\ stoat' = stoat
                        /\ inEstrous
                        /\ ~s.deleted /\ s.male /\ s.parentid = -1
                        /\ matingArray'[m].maleid = s.id
                        /\ \E k \in LiveSlots :
                              /\ ~stoatArray[k].male
                              /\ stoatArray[k].parentid = -1
                              /\ matingArray'[m].femaleid = stoatArray[k].id
                              /\ DistLess(s.x, s.y, stoatArray[k].x, stoatArray[k].y,
                                          cfg.encounterDistance)
                              /\ ~\E e \in ActiveMatings :
                                    /\ matingArray[e].maleid = s.id
                                    /\ matingArray[e].femaleid = stoatArray[k].id
                        /\ \A e \in MatingSlots : MatingCreated(e) => e = m
           /\ (pc # "stoat" /\ pc' = "stoat") => (pc = "hour" \/ stoat' = stoat + 1)
         ]_vars
    /\ [](\A k \in 0 .. (nStoats - 1) :
             stoatArray[k].parentid # -1 => ~InMatingEntry(stoatArray[k].id))

\* a male has mated with a female while a live daughter of hers, still
\* dependent, is within encounterDistance of him
C25_Witness ==
    /\ pc = "pheromone"
    /\ mated
    /\ \E m \in ActiveMatings, k \in LiveSlots, d \in LiveSlots :
          /\ matingArray[m].maleid = stoatArray[stoat].id
          /\ matingArray[m].femaleid = stoatArray[k].id
          /\ matMade[m] = day
          /\ stoatArray[d].parentid = stoatArray[k].id
          /\ ~stoatArray[d].male
          /\ DistLess(stoatArray[stoat].x, stoatArray[stoat].y, stoatArray[d].x,
                      stoatArray[d].y, cfg.encounterDistance)

\* the test of lines 501-503 passes for the stoat of the loop: the step from
\* here is a call of doMaleMating
MatingDue ==
    /\ pc = "stoat"
    /\ stoat < rangeStoats
    /\ ~stoatArray[stoat].deleted
    /\ stoatArray[stoat].male
    /\ inEstrous
    /\ stoatArray[stoat].parentid = -1

\* the step changes the pregnancy of the stoat in slot k
PregnancyChanged(k) ==
    \/ stoatArray'[k].pregnant # stoatArray[k].pregnant
    \/ stoatArray'[k].pregnant_day # stoatArray[k].pregnant_day

\* the females the male of the loop would encounter
Encountered ==
    MatingTargets(stoatArray, nStoats, matingArray, stoatArray[stoat].x,
                  stoatArray[stoat].y, stoatArray[stoat].id, cfg.encounterDistance)

\* C26: a call of doMaleMating changes the pregnant flag and pregnant_day only
\* of the female encountered and of her dependent daughters, and only of slots
\* that are live and were not pregnant.
C26_MatingTouchesOnlyLiveNonPregnantKin ==
    [][ MatingDue =>
          \A k \in StoatSlots :
              PregnancyChanged(k) =>
                  /\ ~stoatArray[k].deleted
                  /\ ~stoatArray[k].pregnant
                  /\ Encountered # {}
                  /\ \/ k = Min(Encountered)
                     \/ /\ stoatArray[k].parentid = stoatArray[Min(Encountered)].id
                        /\ ~stoatArray[k].male
      ]_vars

-----------------------------------------------------------------------------
(* C27: movement *)

\* the step changes the position of the stoat in slot k
Moved(k) == stoatArray'[k].x # stoatArray[k].x \/ stoatArray'[k].y # stoatArray[k].y

\* the step changes the home anchor of the stoat in slot k
HomeMoved(k) ==
    \/ stoatArray'[k].home_x # stoatArray[k].home_x
    \/ stoatArray'[k].home_y # stoatArray[k].home_y

\* C27: the movement of a turn changes the x and y of the stoat of the turn and
\* nothing else of the stoat array; it does not move a dependent stoat; a step
\* that kills a stoat, and any step on a slot that is and stays deleted, leaves
\* the position as it is; and a home anchor changes only when the slot is filled
\* and in the dispersal loop.
C27_MovementChangesPositionOnly ==
    [][ /\ pc = "move" =>
              /\ \A k \in StoatSlots : k # stoat => stoatArray'[k] = stoatArray[k]
              /\ stoatArray' = [stoatArray EXCEPT ![stoat].x = stoatArray'[stoat].x,
                                                  ![stoat].y = stoatArray'[stoat].y]
              /\ stoatArray[stoat].parentid # -1 => ~Moved(stoat)
        /\ \A k \in StoatSlots :
              /\ (stoatArray'[k].deleted /\ ~Created(k)) => ~Moved(k)
              /\ HomeMoved(k) => (Created(k) \/ (pc = "disperse" /\ k = i))
              /\ Moved(k) => (Created(k) \/ (pc = "disperse" /\ k = i)
                                         \/ (pc = "move" /\ k = stoat))
      ]_vars

\* a stoat has just moved away from its home anchor while a dependent kit is
\* alive and a stoat has been killed
C27_Witness ==
    /\ pc = "stoat"
    /\ stoat > 0
    /\ ~stoatArray[stoat - 1].deleted
    /\ stoatArray[stoat - 1].parentid = -1
    /\ stoatArray[stoat - 1].x # stoatArray[stoat - 1].home_x
    /\ \E k \in LiveSlots : stoatArray[k].parentid # -1
    /\ \E k \in 0 .. (nStoats - 1) :
          stoatArray[k].deleted /\ stoatArray[k].x # stoatArray[k].home_x

-----------------------------------------------------------------------------
(* C28: how a stoat dies *)

\* the step deletes the stoat in slot k
Killed(k) == ~stoatArray[k].deleted /\ stoatArray'[k].deleted

\* C28: a stoat becomes deleted only in the trapping and mortality part of a
\* turn: the stoat of the turn when it is a trapping day and the stoat is within
\* trapEncDist of a trap, or when it is the last hour of the day; and any other
\* stoat only when its parentid is the id of the stoat of the turn and that
\* stoat is killed in the same step.
C28_DeathByTrapMortalityOrCascade ==
    [][ \A k \in StoatSlots :
          Killed(k) =>
              /\ pc = "mortality"
              /\ \/ /\ k = stoat
                    /\ \/ TrapTrial(stoatArray[stoat]) /\ cfg.trapProbRemoval > 0
                       \/ hour = cfg.hoursPerDay - 1 /\ cfg.pDaySurv < 100
                 \/ /\ k # stoat
                    /\ k < nStoats
                    /\ stoatArray[k].parentid = stoatArray[stoat].id
                    /\ Killed(stoat)
      ]_vars

\* before the last hour of a trapping day a mother has been killed, and her
\* kit with her
C28_Witness ==
    /\ pc = "stoat"
    /\ stoat > 0
    /\ hour < cfg.hoursPerDay - 1
    /\ inArray(day, cfg.trappingDays)
    /\ stoatArray[stoat - 1].deleted
    /\ \E k \in 0 .. (nStoats - 1) :
          /\ k >= stoat
          /\ stoatArray[k].deleted
          /\ stoatArray[k].parentid = stoatArray[stoat - 1].id
          /\ stoatArray[k].id >= cfg.nAdd

-----------------------------------------------------------------------------
(* C29: the order of the turns in an hour *)

\* the stoat of the loop is in its turn: lines 479-650
InTurn == pc \in {"pheromone", "mortality", "move"}

\* The loop of line 470 as a step sees it.  Its range is fixed when the hour
\* starts, at the slots then in use; the slots are reached one after the other
\* from slot 0, and the hour ends when the last has been reached; a slot that is
\* deleted when it is reached is passed over and nothing is changed; a slot
\* that is live when it is reached has its turn; and a birth adds onto the end
\* only past the range of the hour.
StoatLoopInSlotOrder ==
    /\ pc = "hour" => (stoat' = 0 /\ rangeStoats' = nStoats)
    /\ rangeStoats' # rangeStoats => pc = "hour"
    /\ stoat' # stoat => (pc = "hour" \/ (stoat < rangeStoats /\ stoat' = stoat + 1))
    /\ (pc = "stoat" /\ pc' \notin {"stoat", "pheromone", "error"}) => stoat = rangeStoats
    /\ (pc = "stoat" /\ stoat < rangeStoats /\ stoatArray[stoat].deleted) =>
          /\ stoat' = stoat + 1
          /\ UNCHANGED <<pc, stoatArray, nStoats, Current_Id, matingArray,
                         pheromoneInteractionArray, eradication>>
    /\ (pc = "stoat" /\ stoat < rangeStoats /\ ~stoatArray[stoat].deleted) =>
          /\ stoat' = stoat
          /\ pc' \in {"pheromone", "error"}
    /\ BirthDue => \A k \in AddedOnTheEnd : k >= rangeStoats

\* a turn is the turn of a slot of the range that was live when it was reached
TurnsOfLiveSlotsInRange == InTurn => (stoat < rangeStoats /\ ~stoatArray[stoat].deleted)

\* C29 as it is stated: the loop runs in slot order over the slots in use at the
\* start of the hour, a deleted slot has no turn, a kit added onto the end has
\* its first turn in a later hour, and a kit born into a deleted slot above its
\* mother's slot is in the range of the hour of its birth.
C29_ReusedSlotAboveMotherHasTurnThisHour ==
    /\ [][ /\ StoatLoopInSlotOrder
           /\ BirthDue => \A k \in Refilled : k > stoat => k < rangeStoats
         ]_vars
    /\ []TurnsOfLiveSlotsInRange

\* C29 for the code: as stated, but a kit born into a deleted slot above its
\* mother's slot is in the range of the hour of its birth only if the slot was
\* in use when the hour started; a slot added onto the end by an earlier birth
\* of the hour, and deleted since, is below nStoats and past the range.
C29_ReusedSlotInUseAtStartOfHourHasTurn ==
    /\ [][ /\ StoatLoopInSlotOrder
           /\ BirthDue => \A k \in Refilled : k >= rangeStoats =>
                             (nStoats > rangeStoats /\ stoatArray[k].id >= cfg.nAdd)
         ]_vars
    /\ []TurnsOfLiveSlotsInRange

\* in the hour of the first births a kit has its turn: it was born into a slot
\* above its mother's that was in use when the hour started
C29_Witness ==
    /\ InTurn
    /\ hour = 0
    /\ FirstBirthDay
    /\ stoatArray[stoat].id >= cfg.nAdd
    /\ \E m \in LiveSlots : m < stoat /\ stoatArray[m].id = stoatArray[stoat].parentid

-----------------------------------------------------------------------------
(* C30: the counts of the entries *)

\* the bookkeeping of lines 665-680 has just been done
DayEnded == (pc = "day" /\ day > 0) \/ exit = "horizon"

\* C30: when the bookkeeping at the end of a day has been done, every entry in
\* use of the mating array and of the interaction array has a count above 0,
\* whatever habituationDays >= 0 the entries are made with.
C30_EntriesInUseHaveDaysLeft ==
    DayEnded =>
        /\ \A m \in ActiveMatings : matingArray[m].ndays > 0
        /\ \A h \in ActiveInteractions : pheromoneInteractionArray[h].ndays > 0

-----------------------------------------------------------------------------
(* C31: interactions and the release of the lures *)

\* C31: while nothing has been released (daysSincePheromoneRelease is -1) no
\* entry of the interaction array is in use, wherever the stoats are.
C31_NoInteractionBeforeARelease ==
    daysSincePheromoneRelease = -1 => ActiveInteractions = {}

-----------------------------------------------------------------------------
(* C33: the cell of a point of the bounding box *)

\* C33: for every point that is drawn and lies in the bounding box, the column
\* and the row that checkLocationIsOnIsland rounds it to are a column and a row
\* of the mask.
C33_RoundedCellIsInTheMask ==
    \A p \in cfg.samplePoints :
        InBox(cfg, p[1], p[2]) =>
            /\ 0 <= XPix(cfg, p[1]) /\ XPix(cfg, p[1]) < MaskWidth(cfg.mask)
            /\ 0 <= YPix(cfg, p[2]) /\ YPix(cfg, p[2]) < MaskHeight(cfg.mask)

-----------------------------------------------------------------------------
(* C32: termination *)

\* the arguments of the runs whose end is looked at: a breeding season with a
\* dispersal, a full array, a trap that removes every stoat, a nest beside a
\* lure station, and rasters with water
TerminationCfgs == LifeCycleCfgs \cup CrowdedCfgs \cup SureTrapCfgs \cup LureNestCfgs \cup EdgeCfgs

InitTermination == Init /\ cfg \in TerminationCfgs

\* The statements of the program are executed one after the other, and a loop
\* that draws points until one is on the island draws such a point in the end:
\* a step that changes the state is taken as long as one can be.
FairSpec == InitTermination /\ [][Next]_vars /\ WF_vars(Next)

\* the day loop and the hour loop step through the calendar: a day is begun
\* once, after the day before it has ended, and an hour of a day is begun once,
\* after the hour before it
HoursInCalendarOrder ==
    /\ day' # day => (pc = "dayEnd" /\ day' = day + 1)
    /\ (pc # "day" /\ pc' = "day") => (pc = "seed" \/ (pc = "dayEnd" /\ day' = day + 1))
    /\ (pc # "hour" /\ pc' = "hour") =>
          \/ pc \in {"day", "disperse"} /\ hour' = 0 /\ day' = day
          \/ pc = "stoat" /\ hour' = hour + 1 /\ day' = day
    /\ hour' # hour => (pc' = "hour" \/ pc = "day")

\* the loops stay within range(nDays) and range(hoursPerDay)
WithinCalendar == day < cfg.nDays /\ hour < cfg.hoursPerDay

\* what runRealisation returns, by the way it is left
ReturnedOutcome ==
    pc = "done" =>
        \/ exit = "eradicated" /\ result = TRUE
        \/ exit = "abort" /\ result = FALSE
        \/ exit = "horizon" /\ result = FALSE

\* the errors that runRealisation and the functions it calls raise
Raised ==
    pc = "error" =>
        /\ exit = "error"
        /\ result \in {"Too many stoats", "Unable to add mating",
                       "Unable to add to pheromoneInteractionArray"}

\* C32 as it is stated: every run returns, after hours that follow the
\* calendar and are within it, eradicated with True, aborted by the guard with
\* False, or at the end of the calendar.
C32_EveryRunReturns ==
    /\ <>(pc = "done")
    /\ []WithinCalendar
    /\ []ReturnedOutcome
    /\ [][HoursInCalendarOrder]_vars

\* C32 for the code: every run ends, after hours that follow the calendar and
\* are within it; it returns eradicated with True, aborted by the guard with
\* False, or at the end of the calendar with False, or it raises one of the
\* three errors.
C32_EveryRunReturnsOrRaises ==
    /\ <>(pc \in {"done", "error"})
    /\ []WithinCalendar
    /\ []ReturnedOutcome
    /\ []Raised
    /\ [][HoursInCalendarOrder]_vars

\* a run has come to the end of a calendar of MaxDays days with stoats born in
\* the run alive
C32_Witness ==
    /\ pc = "done"
    /\ exit = "horizon"
    /\ day = MaxDays - 1
    /\ \E k \in LiveSlots : stoatArray[k].id >= cfg.nAdd

====
